---- MODULE Spec2Model ----
(***************************************************************************)
(* Transport (transport_challenge/transport_controller.py): the scene      *)
(* population of get_scene_init_commands and the arm actions pick_up,      *)
(* reset_arm, drop and drop_all, with the per-arm cache of container arm   *)
(* angles.  The Magnebot base class (grasp, reset_arm, drop, drop_all,     *)
(* init_scene, _add_object) is an external collaborator: a grasp or an arm *)
(* motion is a nondeterministic choice over the statuses the docstrings    *)
(* name, a release succeeds exactly when the magnet holds the object.      *)
(***************************************************************************)
EXTENDS Integers, Sequences, FiniteSets, TLC

VARIABLES
    target_objects,        \* self.target_objects: sequence of ids
    containers,            \* self.containers: sequence of ids
    container_arm_angles,  \* self._container_arm_angles: dict arm -> angles
    held,                  \* self.state.held: arm -> set of held ids
    grid,                  \* the room map / occupancy map loaded for the scene
    target_room,           \* room_positions' room, chosen at line 169
    target_cells,          \* cells at which a target object was created
    container_cells,       \* container id -> cell at which it was created
    scene,                 \* number of scene initialisations so far
    fault,                 \* an exception left get_scene_init_commands
    last                   \* the last call: operation, arguments, returned status, requests issued

vars == << target_objects, containers, container_arm_angles, held, grid, target_room,
           target_cells, container_cells, scene, fault, last >>

-----------------------------------------------------------------------------
(* Bounds of the model *)

MaxScenes == 2          \* scene initialisations explored

MaxAngle == 1           \* distinct joint-angle solutions _get_initial_angles may return

(* Program constants *)

MinTargets == 8         \* random.randint(8, 12)

MaxTargets == 12

-----------------------------------------------------------------------------
(* Values *)

Arms == {"left", "right"}

NoId == << 0, 0 >>

Angles == 1..MaxAngle

Range(s) == { s[i] : i \in DOMAIN s }

EmptyDict == [a \in {} |-> 0]

DictSet(d, k, v) == [a \in (DOMAIN d) \cup {k} |-> IF a = k THEN v ELSE d[a]]

DictDel(d, k) == [a \in (DOMAIN d) \ {k} |-> d[a]]

(* ActionStatus values named by the docstrings of pick_up and reset_arm *)
GraspStatus == {"success", "cannot_reach", "failed_to_grasp"}

ArmMotionStatus == {"success", "failed_to_bend"}

-----------------------------------------------------------------------------
(* Room maps and occupancy maps: 2 x 2 grids, np.ndindex order *)

Scan == << <<0, 0>>, <<0, 1>>, <<1, 0>>, <<1, 1>> >>

Cells == Range(Scan)

(* "solo": one room, one free cell.  "two": two rooms, one free cell each. *)
(* "one": one room, two free cells.  "full": two rooms, the second with    *)
(* no free cell.                                                            *)
ArmGrids == {"solo"}

SceneGrids == {"solo", "two", "one", "full"}

room_map(g) ==
    [c \in Cells |-> IF g \in {"solo", "one"} THEN 0 ELSE c[1]]

occupancy_map(g) ==
    [c \in Cells |->
        CASE g = "two"  -> IF c \in {<<0, 0>>, <<1, 1>>} THEN 0 ELSE 1
          [] g = "one"  -> IF c \in {<<0, 0>>, <<0, 1>>} THEN 0 ELSE 1
          [] g \in {"full", "solo"} -> IF c = <<0, 0>> THEN 0 ELSE 1
          [] OTHER      -> 1]

rooms_ignore_occupancy(g) ==
    [r \in { room_map(g)[c] : c \in Cells } |-> { c \in Cells : room_map(g)[c] = r }]

(* rooms: room index -> free cells of the room; a room all of whose cells *)
(* are occupied keeps an empty list.                                       *)
rooms(g) ==
    [r \in { room_map(g)[c] : c \in Cells } |->
        { c \in Cells : room_map(g)[c] = r /\ occupancy_map(g)[c] = 0 }]

(* list(rooms.keys()): the room indices in the order np.ndindex meets them *)
RECURSIVE rooms_keys(_, _)
rooms_keys(g, k) ==
    IF k = 0 THEN << >>
    ELSE LET before == rooms_keys(g, k - 1)
             r == room_map(g)[Scan[k]]
         IN  IF r \in Range(before) THEN before ELSE Append(before, r)

room_order(g) == rooms_keys(g, Len(Scan))

-----------------------------------------------------------------------------
Call(op, arm, target, status, reqs) ==
    [op |-> op, arm |-> arm, target |-> target, status |-> status, reqs |-> reqs]

Req(cmd, arm, arg, ret) == [cmd |-> cmd, arm |-> arm, arg |-> arg, ret |-> ret]

Init ==
    /\ target_objects = << >>
    /\ containers = << >>
    /\ container_arm_angles = EmptyDict
    /\ held = [a \in Arms |-> {}]
    /\ grid = "none"
    /\ target_room = -1
    /\ target_cells = {}
    /\ container_cells = EmptyDict
    /\ scene = 0
    /\ fault = FALSE
    /\ last = Call("init", "none", NoId, "success", << >>)

-----------------------------------------------------------------------------
(* _add_object: the external creation call; the k-th object of scene s *)
add_object(s, k) == << s, k >>

clear_keeps(list) == list

(* list.clear(), lines 141-142 *)
clear(list) == << >>

(* The rooms that get a container, lines 199-204: the rooms of             *)
(* room_order(g) from the k-th on that are not skipped, up to the first    *)
(* one whose free-cell list is empty, where random.choice raises.          *)
RECURSIVE container_rooms(_, _, _)
container_rooms(g, skip, k) ==
    IF k > Len(room_order(g)) THEN << >>
    ELSE LET r == room_order(g)[k]
         IN  IF skip[r] THEN container_rooms(g, skip, k + 1)
             ELSE IF rooms(g)[r] = {} THEN << >>
             ELSE << r >> \o container_rooms(g, skip, k + 1)

placed_rooms(g, skip) == container_rooms(g, skip, 1)

(* line 204 raises IndexError on a room that is not skipped and has no free cell *)
container_loop_raises(g, skip) ==
    \E r \in DOMAIN rooms(g) : ~skip[r] /\ rooms(g)[r] = {}

add_targets_one_id(s, n) == [i \in 1..n |-> add_object(s, 1)]

(* lines 172-189: the n target objects, each registered under the id the   *)
(* creation call returned for it                                           *)
add_targets(s, n) == [i \in 1..n |-> add_object(s, i)]

(* _add_container for each placed room, in order: ids follow the n targets *)
add_containers(s, n, placed) == [j \in 1..Len(placed) |-> add_object(s, n + j)]

(* get_scene_init_commands with its random draws as parameters:            *)
(*   g the scene's maps, room the room of random.choice(list(rooms.values())),*)
(*   n = random.randint(8, 12), cells the cells that the n draws            *)
(*   random.choice(room_positions) hit,                                    *)
(*   skip[r] whether random.random() < 0.25 for room r, pick[r] the cell   *)
(*   of random.choice(rooms[room_index]).                                  *)
get_scene_init_commands(g, room, n, cells, skip, pick) ==
    LET room_positions == rooms(g)[room]
        placed == placed_rooms(g, skip)
    IN  /\ grid' = g
        /\ target_room' = room
        /\ IF room_positions = {}
           THEN \* line 173 raises at i = 0, after the registries were cleared
                /\ target_objects' = clear(target_objects)
                /\ containers' = clear(containers)
                /\ target_cells' = {}
                /\ container_cells' = EmptyDict
                /\ fault' = TRUE
           ELSE /\ target_objects' =
                       clear(target_objects) \o add_targets(scene + 1, n)
                /\ target_cells' = cells
                /\ containers' = clear(containers) \o add_containers(scene + 1, n, placed)
                /\ container_cells' =
                       [id \in Range(add_containers(scene + 1, n, placed)) |->
                           pick[placed[id[2] - n]]]
                /\ fault' = container_loop_raises(g, skip)

CellDraws_room_per_target(g, room, n) ==
    IF rooms(g)[room] = {} THEN { {} }
    ELSE { S \in SUBSET UNION { rooms(g)[r] : r \in DOMAIN rooms(g) } :
             S # {} /\ Cardinality(S) <= n }

(* The draws get_scene_init_commands can make on the maps g *)
(* n draws from room_positions hit any non-empty set of at most n of its cells *)
CellDraws(g, room, n) ==
    IF rooms(g)[room] = {} THEN { {} }
    ELSE { S \in SUBSET rooms(g)[room] : S # {} /\ Cardinality(S) <= n }

PickDraws(g) ==
    { p \in [DOMAIN rooms(g) -> Cells] :
        \A r \in DOMAIN rooms(g) :
            IF rooms(g)[r] = {} THEN p[r] = <<0, 0>> ELSE p[r] \in rooms(g)[r] }

(* Magnebot.init_scene: loads the scene through get_scene_init_commands;   *)
(* the new scene's Magnebot holds nothing (an exception leaves the state   *)
(* of the Magnebot as it was).  _container_arm_angles is not touched by    *)
(* either.                                                                 *)
init_scene(grids) ==
    /\ ~fault
    /\ scene < MaxScenes
    /\ \E g \in grids :
       \E room \in DOMAIN rooms(g), n \in MinTargets..MaxTargets :
       \E cells \in CellDraws(g, room, n), skip \in [DOMAIN rooms(g) -> BOOLEAN],
          pick \in PickDraws(g) :
            get_scene_init_commands(g, room, n, cells, skip, pick)
    /\ scene' = scene + 1
    /\ held' = IF fault' THEN held ELSE [a \in Arms |-> {}]
    /\ last' = Call("init_scene", "none", NoId, IF fault' THEN "raised" ELSE "success", << >>)
    /\ UNCHANGED container_arm_angles

-----------------------------------------------------------------------------
(* Arm actions *)

(* The ids callers pass to pick_up and drop: every container and the first *)
(* target object, as fill_and_pour.py does.                                *)
PickIds ==
    Range(containers) \cup { target_objects[i] : i \in DOMAIN target_objects \cap {1} }

(* Magnebot.grasp(target, arm): the statuses pick_up's docstring names;    *)
(* on success the magnet holds target as well.                             *)
grasp_held(h, target, arm, status) ==
    IF status = "success" THEN [h EXCEPT ![arm] = @ \cup {target}] ELSE h

(* lines 104-108: replay the cached angles.  The angles argument of line   *)
(* 105 is the dictionary itself.                                           *)
replay_cached(arm, prior, op, target) ==
    \E status \in ArmMotionStatus :
        /\ last' = Call(op, arm, target, status,
                        prior \o << Req("ik", arm, [kind |-> "dict", value |-> container_arm_angles], "none"),
                                    Req("do_arm_motion", arm, "none", status),
                                    Req("end_action", arm, "none", "none") >>)
        /\ UNCHANGED container_arm_angles

default_reset_any_held(arm, reset_torso, h, prior, op, target) ==
    \E status0 \in ArmMotionStatus :
        IF h[arm] = {}
        THEN /\ last' = Call(op, arm, target, status0,
                             prior \o << Req("reset_arm", arm, "none", status0) >>)
             /\ UNCHANGED container_arm_angles
        ELSE \E object_id \in h[arm], status \in ArmMotionStatus, angles \in Angles :
                /\ last' = Call(op, arm, target, status,
                                prior \o << Req("reset_arm", arm, "none", status0),
                                            Req("ik_orientation", arm, object_id, "none"),
                                            Req("do_arm_motion", arm, "none", status),
                                            Req("end_action", arm, "none", "none"),
                                            Req("get_initial_angles", arm, "none", angles) >>)
                /\ container_arm_angles' = DictSet(container_arm_angles, arm, angles)

(* lines 110-125: the default reset of the base class, then the alignment  *)
(* of the first held id that is a container.  h is self.state.held.        *)
default_reset(arm, reset_torso, h, prior, op, target) ==
    \E status0 \in ArmMotionStatus :
        IF h[arm] \cap Range(containers) = {}
        THEN \* line 125
             /\ last' = Call(op, arm, target, status0,
                             prior \o << Req("reset_arm", arm, "none", status0) >>)
             /\ UNCHANGED container_arm_angles
        ELSE \* lines 111-124
             \E object_id \in h[arm] \cap Range(containers),
                status \in ArmMotionStatus, angles \in Angles :
                /\ last' = Call(op, arm, target, status,
                                prior \o << Req("reset_arm", arm, "none", status0),
                                            Req("ik_orientation", arm, object_id, "none"),
                                            Req("do_arm_motion", arm, "none", status),
                                            Req("end_action", arm, "none", "none"),
                                            Req("get_initial_angles", arm, "none", angles) >>)
                /\ container_arm_angles' = DictSet(container_arm_angles, arm, angles)

reset_arm_always_default(arm, reset_torso, h, prior, op, target) ==
    default_reset(arm, reset_torso, h, prior, op, target)

(* reset_arm(arm, reset_torso), lines 103-125.  h is self.state.held when  *)
(* the method runs, prior the requests the calling action issued before,   *)
(* op and target name the calling action for the record of the call.       *)
reset_arm(arm, reset_torso, h, prior, op, target) ==
    IF arm \in DOMAIN container_arm_angles
    THEN replay_cached(arm, prior, op, target)
    ELSE default_reset(arm, reset_torso, h, prior, op, target)

(* lines 73-76 *)
already_holding(target, arm) ==
    /\ last' = Call("pick_up", arm, target, "success", << >>)
    /\ UNCHANGED << held, container_arm_angles >>

(* lines 79-81 *)
grasp_failed(target, arm, status) ==
    /\ last' = Call("pick_up", arm, target, status,
                    << Req("grasp", arm, target, status),
                       Req("end_action", arm, "none", "none") >>)
    /\ UNCHANGED container_arm_angles

(* lines 78-82 *)
grasp_and_lift(target, arm) ==
    \E status \in GraspStatus :
        /\ held' = grasp_held(held, target, arm, status)
        /\ IF status # "success"
           THEN grasp_failed(target, arm, status)
           ELSE reset_arm(arm, TRUE, held', << Req("grasp", arm, target, status) >>,
                          "pick_up", target)

pick_up_no_short_circuit(target, arm) == grasp_and_lift(target, arm)

pick_up_forgets_cache_on_failure(target, arm) ==
    IF target \in held[arm]
    THEN already_holding(target, arm)
    ELSE \E status \in GraspStatus :
            /\ held' = grasp_held(held, target, arm, status)
            /\ IF status # "success"
               THEN /\ last' = Call("pick_up", arm, target, status,
                                    << Req("grasp", arm, target, status),
                                       Req("end_action", arm, "none", "none") >>)
                    /\ container_arm_angles' = DictDel(container_arm_angles, arm)
               ELSE reset_arm(arm, TRUE, held', << Req("grasp", arm, target, status) >>,
                              "pick_up", target)

pick_up_no_return_on_failure(target, arm) ==
    IF target \in held[arm]
    THEN already_holding(target, arm)
    ELSE \E status \in GraspStatus :
            /\ held' = grasp_held(held, target, arm, status)
            /\ reset_arm(arm, TRUE, held', << Req("grasp", arm, target, status) >>,
                         "pick_up", target)

pick_up_one_per_arm(target, arm) ==
    IF target \in held[arm]
    THEN already_holding(target, arm)
    ELSE IF held[arm] # {}
         THEN /\ last' = Call("pick_up", arm, target, "failed_to_grasp", << >>)
              /\ UNCHANGED << held, container_arm_angles >>
         ELSE grasp_and_lift(target, arm)

(* pick_up(target, arm), lines 56-82 *)
pick_up(target, arm) ==
    IF target \in held[arm]
    THEN already_holding(target, arm)
    ELSE grasp_and_lift(target, arm)

(* Magnebot.drop(target, arm): releases target if the magnet holds it *)
base_drop_status(target, arm) ==
    IF target \in held[arm] THEN "success" ELSE "not_holding"

base_drop_held(target, arm) ==
    IF target \in held[arm] THEN [held EXCEPT ![arm] = @ \ {target}] ELSE held

(* lines 128-133, with the dictionary a successful release leaves *)
drop_then(target, arm, angles_after) ==
    LET status == base_drop_status(target, arm)
    IN  /\ held' = base_drop_held(target, arm)
        /\ container_arm_angles' =
               IF status = "success" THEN angles_after ELSE container_arm_angles
        /\ last' = Call("drop", arm, target, status, << Req("drop", arm, target, status) >>)

drop_keeps_cache(target, arm) == drop_then(target, arm, container_arm_angles)

drop_clears_every_arm(target, arm) == drop_then(target, arm, EmptyDict)

(* drop(target, arm), lines 127-133 *)
drop(target, arm) == drop_then(target, arm, DictDel(container_arm_angles, arm))

(* Magnebot.drop_all(): releases whatever either magnet holds *)
base_drop_all_status ==
    IF \A a \in Arms : held[a] = {} THEN "not_holding" ELSE "success"

base_drop_all_held == [a \in Arms |-> {}]

(* lines 136-137, with the dictionary line 136 leaves *)
drop_all_then(angles_after) ==
    /\ container_arm_angles' = angles_after
    /\ held' = base_drop_all_held
    /\ last' = Call("drop_all", "none", NoId, base_drop_all_status,
                    << Req("drop_all", "none", "none", base_drop_all_status) >>)

drop_all_keeps_cache == drop_all_then(container_arm_angles)

(* drop_all(), lines 135-137 *)
drop_all == drop_all_then(EmptyDict)

SceneVars == << target_objects, containers, grid, target_room, target_cells,
                container_cells, scene, fault >>

PickUp ==
    /\ ~fault
    /\ \E target \in PickIds, arm \in Arms : pick_up(target, arm)
    /\ UNCHANGED SceneVars

ResetArm ==
    /\ ~fault
    /\ scene > 0
    /\ \E arm \in Arms, reset_torso \in BOOLEAN :
          reset_arm(arm, reset_torso, held, << >>, "reset_arm", NoId)
    /\ UNCHANGED held
    /\ UNCHANGED SceneVars

Drop ==
    /\ ~fault
    /\ \E target \in PickIds, arm \in Arms : drop(target, arm)
    /\ UNCHANGED SceneVars

DropAll ==
    /\ ~fault
    /\ scene > 0
    /\ drop_all
    /\ UNCHANGED SceneVars

InitSceneArm == init_scene(ArmGrids)

Next == InitSceneArm \/ PickUp \/ ResetArm \/ Drop \/ DropAll

Spec == Init /\ [][Next]_vars

-----------------------------------------------------------------------------
InitScene == init_scene(SceneGrids)

NextScene == InitScene

SpecScene == Init /\ [][NextScene]_vars

-----------------------------------------------------------------------------
(* Reading the record of a call *)

Issued(call, cmd) == \E i \in DOMAIN call.reqs : call.reqs[i].cmd = cmd

(* the body of reset_arm ran for arm a during the call *)
ResetRan(call, a) ==
    /\ call.op \in {"pick_up", "reset_arm"}
    /\ call.arm = a
    /\ (Issued(call, "ik") \/ Issued(call, "reset_arm"))

Cached(d, a) == a \in DOMAIN d

HoldsContainer(h, a) == h[a] \cap Range(containers) # {}

GraspFailures == {"cannot_reach", "failed_to_grasp"}

-----------------------------------------------------------------------------
(* C1: pick_up(id, arm) on an id the arm already holds returns success,    *)
(* issues no request (no grasp, no arm motion) and leaves held and the     *)
(* cached angles as they were.                                             *)
C1_PickUpIdempotent ==
    [][ (last'.op = "pick_up" /\ last'.target \in held[last'.arm])
            => /\ last'.status = "success"
               /\ last'.reqs = << >>
               /\ held' = held
               /\ container_arm_angles' = container_arm_angles ]_vars

C1_Witness ==
    /\ last.op = "pick_up"
    /\ last.target \in held[last.arm]
    /\ last.status = "success"
    /\ last.reqs = << >>

(* C2: a pick_up whose grasp returns cannot_reach or failed_to_grasp leaves *)
(* held[arm] (and all of held) and the cached angles unchanged.             *)
C2_NoPartialCommit ==
    [][ (last'.op = "pick_up" /\ last'.status \in GraspFailures)
            => /\ held' = held
               /\ container_arm_angles' = container_arm_angles ]_vars

C2_Witness ==
    /\ last.op = "pick_up"
    /\ last.status \in GraspFailures
    /\ held[last.arm] # {}
    /\ Cached(container_arm_angles, last.arm)

(* C3: once reset_arm has aligned a container held by arm a, the arm has a  *)
(* cache entry; the entry stays until a successful drop on a or a drop_all; *)
(* and while it is there every reset of arm a (by reset_arm or inside       *)
(* pick_up) replays the cached angles and issues neither the default reset  *)
(* nor an orientation-alignment request.                                    *)
C3_CachedReplayOnly ==
    [][ \A a \in Arms :
          /\ (last'.arm = a /\ Issued(last', "ik_orientation"))
                => Cached(container_arm_angles', a)
          /\ (/\ Cached(container_arm_angles, a)
              /\ ~(last'.op = "drop" /\ last'.arm = a /\ last'.status = "success")
              /\ last'.op # "drop_all")
                => /\ Cached(container_arm_angles', a)
                   /\ container_arm_angles'[a] = container_arm_angles[a]
          /\ (Cached(container_arm_angles, a) /\ ResetRan(last', a))
                => /\ Issued(last', "ik")
                   /\ ~Issued(last', "ik_orientation")
                   /\ ~Issued(last', "reset_arm")
                   /\ ~Issued(last', "get_initial_angles") ]_vars

(* a container picked up by the replay path: the arm's entry was cached for *)
(* the container of an earlier scene                                        *)
C3_Witness ==
    /\ last.op = "pick_up"
    /\ last.target \in Range(containers)
    /\ last.status = "success"
    /\ Issued(last, "ik")
    /\ ~Issued(last, "ik_orientation")

(* C4: a successful drop(id, a) leaves no cache entry for a; an arm without *)
(* an entry gets one only from a reset that aligns a container; and a reset *)
(* of an arm without an entry that holds a container takes the slow path    *)
(* (default reset, orientation alignment) and writes the entry.             *)
C4_DropInvalidatesCache ==
    [][ \A a \in Arms :
          /\ (last'.op = "drop" /\ last'.arm = a /\ last'.status = "success")
                => ~Cached(container_arm_angles', a)
          /\ (~Cached(container_arm_angles, a) /\ Cached(container_arm_angles', a))
                => (last'.arm = a /\ Issued(last', "ik_orientation"))
          /\ (/\ ~Cached(container_arm_angles, a)
              /\ ResetRan(last', a)
              /\ HoldsContainer(held', a))
                => /\ Issued(last', "reset_arm")
                   /\ Issued(last', "ik_orientation")
                   /\ ~Issued(last', "ik")
                   /\ Cached(container_arm_angles', a) ]_vars

(* reset_arm called on an arm that holds a container and has no entry: the  *)
(* entry written by pick_up was removed by a successful drop on that arm    *)
C4_Witness ==
    /\ last.op = "reset_arm"
    /\ Issued(last, "ik_orientation")
    /\ HoldsContainer(held, last.arm)
    /\ Cached(container_arm_angles, last.arm)

(* C5: whenever pick_up returns a status other than success, the target is  *)
(* not held by the arm.                                                     *)
C5_HeldOnlyOnSuccess ==
    (last.op = "pick_up" /\ last.status # "success") => last.target \notin held[last.arm]

(* C6: a pick_up that grasps starts with the grasp; if the grasp fails the  *)
(* call ends the action and returns the grasp's status having issued        *)
(* nothing else; the requests of reset_arm are issued only after a grasp    *)
(* that returned success.                                                   *)
C6_FailedGraspReturnsGraspStatus ==
    (last.op = "pick_up" /\ last.reqs # << >>)
        => /\ last.reqs[1].cmd = "grasp"
           /\ last.reqs[1].ret # "success"
                 => /\ last.status = last.reqs[1].ret
                    /\ Len(last.reqs) = 2
                    /\ last.reqs[2].cmd = "end_action"
           /\ ResetRan(last, last.arm) => last.reqs[1].ret = "success"

C6_Witness ==
    /\ last.op = "pick_up"
    /\ last.status = "failed_to_grasp"
    /\ last.reqs[1].ret = "failed_to_grasp"

(* C7: after drop_all the cache has no entry and neither arm holds anything *)
C7_DropAllClears ==
    last.op = "drop_all"
        => /\ DOMAIN container_arm_angles = {}
           /\ \A a \in Arms : held[a] = {}

C7_Witness ==
    /\ last.op = "drop_all"
    /\ last.status = "success"

(* C8: pick_up, reset_arm and drop on one arm leave what the other arm      *)
(* holds and the other arm's cache entry unchanged.                         *)
C8_OtherArmUntouched ==
    [][ last'.op \in {"pick_up", "reset_arm", "drop"}
            => \A b \in Arms \ {last'.arm} :
                  /\ held'[b] = held[b]
                  /\ Cached(container_arm_angles', b) <=> Cached(container_arm_angles, b)
                  /\ Cached(container_arm_angles, b)
                        => container_arm_angles'[b] = container_arm_angles[b] ]_vars

(* the container held on the right arm after a pick_up of a target object   *)
(* on the left arm succeeded                                                *)
C8_Witness ==
    /\ last.op = "pick_up"
    /\ last.arm = "left"
    /\ last.target \in Range(target_objects)
    /\ last.status = "success"
    /\ HoldsContainer(held, "right")
    /\ Cached(container_arm_angles, "right")

(* C9: scene population completes without a fault, also on maps with a room *)
(* that has no free cell, and places no container in such a room.           *)
C9_PopulateNeverFaults ==
    last.op = "init_scene"
        => /\ ~fault
           /\ \A id \in DOMAIN container_cells :
                 rooms(grid)[room_map(grid)[container_cells[id]]] # {}

(* C10: after every scene population, 8 <= |target_objects| <= 12 and       *)
(* |containers| <= the number of rooms.                                     *)
C10_PlacementBounds ==
    last.op = "init_scene"
        => /\ MinTargets <= Len(target_objects)
           /\ Len(target_objects) <= MaxTargets
           /\ Len(containers) <= Cardinality(DOMAIN rooms(grid))

(* C11: target_objects and containers share no id and neither holds an id  *)
(* twice (the creation call returning a fresh id each time).                *)
C11_RegistriesDisjoint ==
    /\ Range(target_objects) \cap Range(containers) = {}
    /\ Cardinality(Range(target_objects)) = Len(target_objects)
    /\ Cardinality(Range(containers)) = Len(containers)

C11_Witness ==
    /\ last.op = "init_scene"
    /\ Len(target_objects) = MaxTargets
    /\ Len(containers) = 2

(* C12: every target object and every container is created at a cell that  *)
(* the occupancy map marks free (value 0).                                  *)
C12_OccupancyRespected ==
    /\ \A c \in target_cells : occupancy_map(grid)[c] = 0
    /\ \A id \in DOMAIN container_cells : occupancy_map(grid)[container_cells[id]] = 0

(* targets and a container placed in a room that also has occupied cells *)
C12_Witness ==
    /\ last.op = "init_scene"
    /\ target_cells # {}
    /\ DOMAIN container_cells # {}
    /\ \E c \in Cells : room_map(grid)[c] = target_room /\ occupancy_map(grid)[c] = 1

(* C13: after a scene population the registries hold only ids created by   *)
(* that call (ids of scene number `scene`), none of an earlier call's.      *)
C13_RegistriesRebuilt ==
    \A id \in Range(target_objects) \cup Range(containers) : id[1] = scene

(* the second population has registered target objects and a container *)
C13_Witness ==
    /\ last.op = "init_scene"
    /\ scene = 2
    /\ target_objects # << >>
    /\ containers # << >>

(* C20: every target object of a population is at a free cell of the one   *)
(* room drawn for that call; the containers are at free cells of pairwise   *)
(* different rooms (at most one per room), in the order of the rooms.       *)
C20_TargetsClustered ==
    /\ scene > 0 => target_cells \subseteq rooms(grid)[target_room]
    /\ \A id \in DOMAIN container_cells :
          container_cells[id] \in rooms(grid)[room_map(grid)[container_cells[id]]]
    /\ \A id1, id2 \in DOMAIN container_cells :
          room_map(grid)[container_cells[id1]] = room_map(grid)[container_cells[id2]]
              => id1 = id2
    /\ DOMAIN container_cells = Range(containers)

(* two rooms, a container in each, the targets in one of them *)
C20_Witness ==
    /\ last.op = "init_scene"
    /\ grid = "two"
    /\ target_cells # {}
    /\ Len(containers) = 2

(* C14: an arm that has a cache entry holds a container.                    *)
C14_CacheImpliesContainerHeld ==
    \A a \in Arms : Cached(container_arm_angles, a) => HoldsContainer(held, a)

(* C15: an orientation alignment that returned a status other than success  *)
(* leaves the arm without a cache entry.                                    *)
C15_NoCacheAfterFailedAlignment ==
    (Issued(last, "ik_orientation") /\ last.status # "success")
        => ~Cached(container_arm_angles, last.arm)

(* C16: a drop or drop_all that returns a status other than success leaves  *)
(* the cache and held as they were.                                         *)
C16_FailedReleaseChangesNothing ==
    [][ (last'.op \in {"drop", "drop_all"} /\ last'.status # "success")
            => /\ container_arm_angles' = container_arm_angles
               /\ held' = held ]_vars

C18_CachesOnlyForContainers ==
    [][ \A a \in Arms :
          (/\ ~Cached(container_arm_angles, a)
           /\ ResetRan(last', a)
           /\ ~HoldsContainer(held', a))
            => /\ \E i \in DOMAIN last'.reqs :
                     /\ last'.reqs[i].cmd = "reset_arm"
                     /\ last'.reqs[i].ret = last'.status
               /\ ~Issued(last', "ik_orientation")
               /\ ~Issued(last', "ik")
               /\ container_arm_angles' = container_arm_angles ]_vars

C18_Witness ==
    /\ last.op = "reset_arm"
    /\ Issued(last, "reset_arm")
    /\ ~Issued(last, "ik_orientation")
    /\ held[last.arm] # {}
    /\ ~HoldsContainer(held, last.arm)
    /\ ~Cached(container_arm_angles, last.arm)

(* C19: the angles a cached replay sends are the array cached for the arm   *)
(* of the call, not the mapping of arms to arrays.                          *)
C19_ReplaysOwnAngles ==
    \A i \in DOMAIN last.reqs :
        last.reqs[i].cmd = "ik"
            => /\ last.reqs[i].arg.kind = "array"
               /\ last.reqs[i].arg.value = container_arm_angles[last.arm]

====
